---- MODULE Spec2Model ----
(***************************************************************************)
(* Model of research_osvg:                                                 *)
(*   VideoGameDatabase (src/complete_database_implementation.py), the CSV  *)
(*     ingestion: specifications Spec, SpecExtract and SpecRun;            *)
(*   DB (src/db_class.py), the storage class of the menu interface:        *)
(*     specification SpecGame;                                             *)
(*   GameInterface (src/osvg/interface.py), the menu over that class:      *)
(*     specification SpecMenu;                                             *)
(*   main (src/osvg/main.py) with DB (src/osvg/db/__init__.py), the osvg   *)
(*     command: specification SpecOsvg.                                    *)
(*                                                                         *)
(* Strings are sequences of tokens.  A token is a piece of text that       *)
(* contains no '/', and the tokens "github.com" and ".git" stand for       *)
(* exactly these texts; every other token is free of both.  A missing CSV  *)
(* cell (pandas NaN) is the empty sequence: pandas.read_csv reads an empty *)
(* field as NaN, so the two cannot be told apart in a DataFrame.           *)
(* A NULL integer column is 0 (sqlite row ids start at 1).                 *)
(* Columns that no operation reads back and that are either constant or    *)
(* left NULL by pandas.to_sql (created_at, updated_at, description,        *)
(* gh_metadata, ...) are not represented.                                  *)
(***************************************************************************)
EXTENDS Integers, Sequences, FiniteSets, TLC

VARIABLES db, status, lastCsv, repeat, before, nLoads, stats, epc, eurl, eres,
          schema, pc, done, failed, start, drops, crashes,
          gdb, gres, fk, gops, menu, shown,
          odb, olast, oprev, cli, oruns

loadVars == <<db, status, lastCsv, repeat, before, nLoads, stats>>
extractVars == <<epc, eurl, eres>>
runVars == <<schema, pc, done, failed, start, drops, crashes>>

gameVars == <<gdb, gres, fk, gops, menu, shown>>
osvgVars == <<odb, olast, oprev, cli, oruns>>

vars == <<loadVars, extractVars, runVars, gameVars, osvgVars>>

-----------------------------------------------------------------------------
(* Bounds *)

MaxRows == 2
MaxLoads == 3
MaxUrlLen == 7
MaxStartRows == 1
MaxRuns == 2
MaxFaults == 1
MaxOps == 4
MaxAuthorId == 3
MaxCsvRows == 2
MaxMainRuns == 2

-----------------------------------------------------------------------------
(* Text *)

SLASH == "/"
GITHUB == "github.com"
DOTGIT == ".git"
NEWLINE == "\n"
UNKNOWN == <<"unknown">>
NaN == <<>>
NULL == 0

IsNa(v) == v = NaN
NotNa(v) == v # NaN

Digit == <<"0", "1", "2", "3", "4", "5", "6", "7", "8", "9">>

RECURSIVE IntStr(_)
IntStr(n) ==
    IF n < 10 THEN <<Digit[n + 1]>>
    ELSE IntStr(n \div 10) \o <<Digit[(n % 10) + 1]>>

RECURSIVE RStrip(_, _)
RStrip(s, c) ==
    IF Len(s) > 0 /\ s[Len(s)] = c
    THEN RStrip(SubSeq(s, 1, Len(s) - 1), c)
    ELSE s

\* Mutant: the '.git' suffix is left in place.
SubGitSuffix_Kept(s) == s

\* re.sub(r'\.git$', '', s): '$' matches at the end of the string and also
\* just before a line break that ends the string.
SubGitSuffix(s) ==
    IF Len(s) > 0 /\ s[Len(s)] = DOTGIT
    THEN SubSeq(s, 1, Len(s) - 1)
    ELSE IF Len(s) > 1 /\ s[Len(s)] = NEWLINE /\ s[Len(s) - 1] = DOTGIT
    THEN SubSeq(s, 1, Len(s) - 2) \o <<NEWLINE>>
    ELSE s

RECURSIVE RunEnd(_, _)
RunEnd(s, i) ==
    IF i > Len(s) \/ s[i] = SLASH THEN i - 1 ELSE RunEnd(s, i + 1)

MatchAt(s, i) ==
    /\ s[i] = GITHUB
    /\ i + 1 <= Len(s)
    /\ s[i + 1] = SLASH
    /\ LET e1 == RunEnd(s, i + 2)
       IN  /\ e1 >= i + 2
           /\ e1 + 1 <= Len(s)
           /\ s[e1 + 1] = SLASH
           /\ RunEnd(s, e1 + 2) >= e1 + 2

ReSearch(s) ==
    LET starts == {i \in 1..Len(s) : MatchAt(s, i)}
    IN  IF starts = {}
        THEN [found |-> FALSE, g1 |-> <<>>, g2 |-> <<>>]
        ELSE LET i  == CHOOSE k \in starts : \A m \in starts : k <= m
                 e1 == RunEnd(s, i + 2)
                 e2 == RunEnd(s, e1 + 2)
             IN  [found |-> TRUE,
                  g1 |-> SubSeq(s, i + 2, e1),
                  g2 |-> SubSeq(s, e1 + 2, e2)]

RECURSIVE Split(_)
Split(s) ==
    LET cut == {i \in 1..Len(s) : s[i] = SLASH}
    IN  IF cut = {}
        THEN <<s>>
        ELSE LET k == CHOOSE i \in cut : \A m \in cut : i <= m
             IN  <<SubSeq(s, 1, k - 1)>> \o Split(SubSeq(s, k + 1, Len(s)))

\* Mutant: a URL without any '/' is given the title "unknown".
ExtractRepoInfo_UnknownTitle(url) ==
    IF IsNa(url)
    THEN [title |-> UNKNOWN, author |-> UNKNOWN]
    ELSE LET m == ReSearch(url)
         IN  IF m.found
             THEN [title |-> SubGitSuffix(RStrip(m.g2, SLASH)), author |-> m.g1]
             ELSE LET parts == Split(url)
                  IN  IF Len(parts) >= 2
                      THEN [title |-> parts[Len(parts)],
                            author |-> parts[Len(parts) - 1]]
                      ELSE [title |-> UNKNOWN, author |-> UNKNOWN]

ExtractRepoInfo(url) ==
    IF IsNa(url)
    THEN [title |-> UNKNOWN, author |-> UNKNOWN]
    ELSE LET m == ReSearch(url)
         IN  IF m.found
             THEN [title |-> SubGitSuffix(RStrip(m.g2, SLASH)), author |-> m.g1]
             ELSE LET parts == Split(url)
                  IN  IF Len(parts) >= 2
                      THEN [title |-> parts[Len(parts)],
                            author |-> parts[Len(parts) - 1]]
                      ELSE [title |-> url, author |-> UNKNOWN]

-----------------------------------------------------------------------------
(* DataFrame and SQL helpers *)

\* The elements of s at the positions in keep, in order, from position i on.
RECURSIVE PickIdx(_, _, _)
PickIdx(s, keep, i) ==
    IF i > Len(s) THEN <<>>
    ELSE (IF i \in keep THEN <<s[i]>> ELSE <<>>) \o PickIdx(s, keep, i + 1)

Range(s) == {s[i] : i \in 1..Len(s)}

RECURSIVE Flatten(_)
Flatten(ss) == IF ss = <<>> THEN <<>> ELSE Head(ss) \o Flatten(Tail(ss))

\* Series.unique(), and drop_duplicates() over whole rows: the distinct values
\* in order of first appearance.
Unique(s) == PickIdx(s, {i \in 1..Len(s) : \A j \in 1..(i - 1) : s[j] # s[i]}, 1)

\* Mutant: missing values are kept.
DropNa_Keeps(s) == s

\* Series.dropna()
DropNa(s) == PickIdx(s, {i \in 1..Len(s) : NotNa(s[i])}, 1)

\* df[column] of a CSV
Column(df, c) == [i \in 1..Len(df) |-> df[i][c]]

\* A DataFrame: its rows, and whether it has any column at all
\* (pd.DataFrame([]) has none).
Frame(rows) == [cols |-> TRUE, rows |-> rows]
FrameOfDicts(rows) == [cols |-> rows # <<>>, rows |-> rows]

\* the values of row r in the columns of subset
KeyOf(r, subset) == [i \in 1..Len(subset) |-> r[subset[i]]]

\* Mutant: every row is kept.
DropDuplicates_KeepsAll(f, subset) == [exc |-> "none", frame |-> f]

\* Mutant: drop_duplicates(keep='last'), the last row of every key is kept.
DropDuplicates_KeepLast(f, subset) ==
    [exc |-> "none",
     frame |-> [f EXCEPT !.rows =
         PickIdx(f.rows,
                 {i \in 1..Len(f.rows) :
                     \A j \in (i + 1)..Len(f.rows) :
                         KeyOf(f.rows[j], subset) # KeyOf(f.rows[i], subset)},
                 1)]]

\* DataFrame.drop_duplicates(subset=...): an empty frame is returned as it is,
\* before the subset is looked at; otherwise a missing column is a KeyError and
\* the first row of every key is kept.
DropDuplicates(f, subset) ==
    IF f.rows = <<>> THEN [exc |-> "none", frame |-> f]
    ELSE IF ~f.cols THEN [exc |-> "KeyError", frame |-> f]
    ELSE [exc |-> "none",
          frame |-> [f EXCEPT !.rows =
              PickIdx(f.rows,
                      {i \in 1..Len(f.rows) :
                          \A j \in 1..(i - 1) :
                              KeyOf(f.rows[j], subset) # KeyOf(f.rows[i], subset)},
                      1)]]

\* Mutant: no row is recognised as stored.
NotIsin_KeepsAll(f, c, existing) == [exc |-> "none", frame |-> f]

\* df[~df[c].isin(existing)]: selecting a column of a frame without columns
\* is a KeyError.
NotIsin(f, c, existing) ==
    IF ~f.cols THEN [exc |-> "KeyError", frame |-> f]
    ELSE [exc |-> "none",
          frame |-> [f EXCEPT !.rows =
              PickIdx(f.rows, {i \in 1..Len(f.rows) : f.rows[i][c] \notin existing}, 1)]]

\* try: df = <filter> except Exception: pass
TryExceptPass(f, r) == IF r.exc # "none" THEN f ELSE r.frame

\* Series.astype(str) of an integer column: a column holding a NULL is read as
\* float64 (ids print as "1.0", NULL as "nan"), a column of NULLs only as
\* object ("None").
AsTypeStr(v, column) ==
    IF \A x \in column : x # NULL THEN IntStr(v)
    ELSE IF \A x \in column : x = NULL THEN <<"None">>
    ELSE IF v = NULL THEN <<"nan">>
    ELSE IntStr(v) \o <<".0">>

\* df['composite'] = df[a].astype(str) + '_' + df[b].astype(str), where the
\* column a is text when aIsText and an integer column otherwise
WithComposite(rows, a, aIsText, b) ==
    [i \in 1..Len(rows) |->
        rows[i] @@
        [composite |->
            (IF aIsText THEN rows[i][a]
             ELSE AsTypeStr(rows[i][a], {rows[j][a] : j \in 1..Len(rows)}))
            \o <<"_">>
            \o AsTypeStr(rows[i][b], {rows[j][b] : j \in 1..Len(rows)})]]

\* df.drop('composite', axis=1)
DropComposite(rows) ==
    [i \in 1..Len(rows) |->
        [c \in DOMAIN rows[i] \ {"composite"} |-> rows[i][c]]]

\* The rows of the frame whose composite of columns a and b is not a composite
\* of the stored rows: the body of the try block of a composite-key filter.
RemoveByComposite(f, stored, a, aIsText, b) ==
    IF ~f.cols THEN [exc |-> "KeyError", frame |-> f]
    ELSE LET existing == {r.composite : r \in Range(WithComposite(stored, a, aIsText, b))}
             marked   == Frame(WithComposite(f.rows, a, aIsText, b))
             kept     == NotIsin(marked, "composite", existing)
         IN  [exc |-> kept.exc, frame |-> Frame(DropComposite(kept.frame.rows))]

MaxId(table) ==
    IF table = <<>> THEN 0
    ELSE CHOOSE m \in {table[i]._id : i \in 1..Len(table)} :
            \A i \in 1..Len(table) : table[i]._id <= m

\* Mutant: to_sql(if_exists='replace'), the frame takes the place of the table.
ToSql_Replace(table, rows) == [i \in 1..Len(rows) |-> [_id |-> i] @@ rows[i]]

\* DataFrame.to_sql(if_exists='append') into a table with an INTEGER PRIMARY KEY:
\* every row gets the next row id, in frame order.
ToSql(table, rows) ==
    table \o [i \in 1..Len(rows) |-> [_id |-> MaxId(table) + i] @@ rows[i]]

\* DataFrame.to_sql(if_exists='append') into a join table, whose primary key is
\* the pair of id columns pk: one INSERT of all rows, rejected as a whole when a
\* pair is already stored or occurs twice.
ToSqlJoin(table, rows, pk) ==
    IF \/ \E i \in 1..Len(rows) : \E j \in 1..Len(table) :
              KeyOf(rows[i], pk) = KeyOf(table[j], pk)
       \/ \E i, j \in 1..Len(rows) : i # j /\ KeyOf(rows[i], pk) = KeyOf(rows[j], pk)
    THEN [exc |-> "IntegrityError", table |-> table]
    ELSE [exc |-> "none", table |-> table \o rows]

\* Mutant: the lookup finds nothing.
DictGet_Missing(table, c, key) == NULL

\* dict(zip(table[c], table['_id'])).get(key): the id of the last row with that
\* key, or None.
DictGet(table, c, key) ==
    LET hit == {i \in 1..Len(table) : table[i][c] = key}
    IN  IF hit = {} THEN NULL
        ELSE table[CHOOSE i \in hit : \A j \in hit : j <= i]._id

\* A step's outcome: the store, and the exception that left the step, if any.
Ok(d) == [db |-> d, exc |-> "none"]
Raise(d, e) == [db |-> d, exc |-> e]

-----------------------------------------------------------------------------
(* VideoGameDatabase: the store and the load steps *)

TableNames ==
    <<"authors", "repos", "indexers", "video_games", "datasets",
      "game_authors", "game_repos", "author_repos", "dataset_to_video_game">>

\* The schema that _create_schema leaves on a new store: every table, empty.
EmptyDb == [t \in Range(TableNames) |-> <<>>]

\* How each table stands in the store: "declared" (created by _create_schema,
\* with its _id or composite primary key), "absent", or "inferred" (created by
\* DataFrame.to_sql from the frame's columns: no _id column, no primary key).
Declared == [t \in Range(TableNames) |-> "declared"]
Absent == [t \in Range(TableNames) |-> "absent"]

LowerToken(t) == IF t = "Acme" THEN "acme" ELSE t

\* Mutant: the comparison ignores letter case (a NOCASE collation).
SqlTextEq_NoCase(a, b) ==
    [i \in 1..Len(a) |-> LowerToken(a[i])] = [i \in 1..Len(b) |-> LowerToken(b[i])]

\* SQL '=' on two text columns (BINARY collation: exact, case-sensitive).
SqlTextEq(a, b) == a = b

\* str.split('/')[-1]
LastSegment(url) == LET parts == Split(url) IN parts[Len(parts)]

\* Mutant: the stored keys are not looked at.
RemoveExisting_Nothing(f, table, c) == f

\* try: existing = read_sql(...); if not existing.empty: df = df[~isin]
\* except Exception: pass -- on a key column c
RemoveExisting(f, table, c) ==
    IF table # <<>>
    THEN TryExceptPass(f, NotIsin(f, c, {table[i][c] : i \in 1..Len(table)}))
    ELSE f

\* if not df.empty: df.to_sql(name, if_exists='append')
AppendRows(d, name, f) ==
    IF f.rows # <<>>
    THEN Ok([d EXCEPT ![name] = ToSql(d[name], f.rows)])
    ELSE Ok(d)

LoadAuthors(d, df) ==
    LET src       == Column(df, "src")
        repo_info == [i \in 1..Len(src) |-> ExtractRepoInfo(src[i])]
        authors   == Unique([i \in 1..Len(repo_info) |-> repo_info[i].author])
        authors_df == Frame([i \in 1..Len(authors) |->
                          [name |-> authors[i],
                           email |-> authors[i] \o <<"@github.com">>,
                           is_active |-> TRUE]])
    IN  AppendRows(d, "authors", RemoveExisting(authors_df, d.authors, "name"))

LoadRepositories(d, df) ==
    LET rows == PickIdx(df, {i \in 1..Len(df) : NotNa(df[i].src)}, 1)
        repo_data == [i \in 1..Len(rows) |->
                         [title |-> ExtractRepoInfo(rows[i].src).title,
                          author |-> ExtractRepoInfo(rows[i].src).author,
                          url |-> rows[i].src,
                          is_active |-> TRUE]]
        dd == DropDuplicates(FrameOfDicts(repo_data), <<"url">>)
    IN  IF dd.exc # "none" THEN Raise(d, dd.exc)
        ELSE AppendRows(d, "repos", RemoveExisting(dd.frame, d.repos, "url"))

LoadIndexers(d, df) ==
    LET indexer_urls == Unique(DropNa(Column(df, "ds")))
    IN  IF \E i \in 1..Len(indexer_urls) : IsNa(indexer_urls[i])
        THEN Raise(d, "AttributeError")
        ELSE
        LET indexers_df == Frame([i \in 1..Len(indexer_urls) |->
                              [title |-> LastSegment(indexer_urls[i]),
                               url |-> indexer_urls[i],
                               is_active |-> TRUE]])
        IN  AppendRows(d, "indexers", RemoveExisting(indexers_df, d.indexers, "url"))

LoadVideoGames(d, df) ==
    LET rows == PickIdx(df, {i \in 1..Len(df) : NotNa(df[i].src)}, 1)
        games_data == [i \in 1..Len(rows) |->
                          [title |-> ExtractRepoInfo(rows[i].src).title,
                           author_id |-> DictGet(d.authors, "name",
                                                 ExtractRepoInfo(rows[i].src).author),
                           repo_id |-> DictGet(d.repos, "url", rows[i].src),
                           indexer_id |-> IF NotNa(rows[i].ds)
                                          THEN DictGet(d.indexers, "url", rows[i].ds)
                                          ELSE NULL,
                           genre |-> "Open Source",
                           is_published |-> TRUE]]
        dd == DropDuplicates(FrameOfDicts(games_data), <<"title", "author_id">>)
    IN  IF dd.exc # "none" THEN Raise(d, dd.exc)
        ELSE
        LET games_df == dd.frame
            fresh == IF d.video_games # <<>>
                     THEN TryExceptPass(games_df,
                              RemoveByComposite(games_df, d.video_games,
                                                "title", TRUE, "author_id"))
                     ELSE games_df
        IN  AppendRows(d, "video_games", fresh)

LoadDatasets(d, df) ==
    LET dataset_urls == Unique(DropNa(Column(df, "ds")))
    IN  IF \E i \in 1..Len(dataset_urls) : IsNa(dataset_urls[i])
        THEN Raise(d, "AttributeError")
        ELSE
        LET datasets_df == FrameOfDicts([i \in 1..Len(dataset_urls) |->
                              [title |-> LastSegment(dataset_urls[i]),
                               author |-> <<"community">>,
                               url |-> dataset_urls[i],
                               dataset_type |-> "game_collection",
                               is_active |-> TRUE]])
        IN  AppendRows(d, "datasets", RemoveExisting(datasets_df, d.datasets, "url"))

-----------------------------------------------------------------------------
(* VideoGameDatabase._create_many_to_many_relationships *)

\* Mutant: the stored pairs are not removed from the candidates.
RemoveExistingPairs_None(cands, table, pk) == cands

\* The candidates whose composite of the two id columns pk is not among the
\* composites of the stored rows (try ... except Exception: pass).
RemoveExistingPairs(cands, table, pk) ==
    IF table # <<>>
    THEN TryExceptPass(Frame(cands),
             RemoveByComposite(Frame(cands), table, pk[1], FALSE, pk[2])).rows
    ELSE cands

\* if not cands.empty: <remove existing>; if not cands.empty: cands.to_sql(...)
AppendNewPairs(d, name, cands, pk) ==
    IF cands = <<>> THEN Ok(d)
    ELSE LET fresh == RemoveExistingPairs(cands, d[name], pk)
         IN  IF fresh = <<>> THEN Ok(d)
             ELSE LET w == ToSqlJoin(d[name], fresh, pk)
                  IN  IF w.exc # "none" THEN Raise(d, w.exc)
                      ELSE Ok([d EXCEPT ![name] = w.table])

\* Mutant: only the games that have an indexer are linked to their author.
DeriveGameAuthors_IndexedOnly(d) ==
    LET vg == PickIdx(d.video_games,
                      {i \in 1..Len(d.video_games) :
                          /\ d.video_games[i].author_id # NULL
                          /\ d.video_games[i].indexer_id # NULL}, 1)
        games_authors == [i \in 1..Len(vg) |->
                             [game_id |-> vg[i]._id, author_id |-> vg[i].author_id,
                              role |-> "primary_developer"]]
    IN  AppendNewPairs(d, "game_authors", games_authors, <<"game_id", "author_id">>)

DeriveGameAuthors(d) ==
    LET vg == PickIdx(d.video_games,
                      {i \in 1..Len(d.video_games) :
                          d.video_games[i].author_id # NULL}, 1)
        games_authors == [i \in 1..Len(vg) |->
                             [game_id |-> vg[i]._id, author_id |-> vg[i].author_id,
                              role |-> "primary_developer"]]
    IN  AppendNewPairs(d, "game_authors", games_authors, <<"game_id", "author_id">>)

DeriveGameRepos(d) ==
    LET vg == PickIdx(d.video_games,
                      {i \in 1..Len(d.video_games) :
                          d.video_games[i].repo_id # NULL}, 1)
        games_repos == [i \in 1..Len(vg) |->
                           [game_id |-> vg[i]._id, repo_id |-> vg[i].repo_id,
                            repo_type |-> "main"]]
    IN  AppendNewPairs(d, "game_repos", games_repos, <<"game_id", "repo_id">>)

\* SELECT DISTINCT a._id, r._id, 'owner' FROM authors a JOIN repos r
\*   ON a.name = r.author
DeriveAuthorRepos(d) ==
    LET joined == [i \in 1..Len(d.authors) |->
                      LET a == d.authors[i]
                          rs == PickIdx(d.repos,
                                    {j \in 1..Len(d.repos) :
                                        SqlTextEq(a.name, d.repos[j].author)}, 1)
                      IN  [j \in 1..Len(rs) |->
                              [author_id |-> a._id, repo_id |-> rs[j]._id,
                               contribution_type |-> "owner"]]]
    IN  AppendNewPairs(d, "author_repos", Unique(Flatten(joined)),
                       <<"author_id", "repo_id">>)

\* Mutant: the join is on the game's own id instead of its indexer_id.
GamesWithIndexerUrl_OnGameId(d) ==
    Flatten([g \in 1..Len(d.video_games) |->
        LET is == PickIdx(d.indexers,
                      {i \in 1..Len(d.indexers) :
                          /\ d.video_games[g]._id = d.indexers[i]._id
                          /\ NotNa(d.indexers[i].url)}, 1)
        IN  [i \in 1..Len(is) |->
                [video_game_id |-> d.video_games[g]._id, indexer_url |-> is[i].url]]])

\* SELECT vg._id, i.url FROM video_games vg LEFT JOIN indexers i
\*   ON vg.indexer_id = i._id WHERE i.url IS NOT NULL
GamesWithIndexerUrl(d) ==
    Flatten([g \in 1..Len(d.video_games) |->
        LET is == PickIdx(d.indexers,
                      {i \in 1..Len(d.indexers) :
                          /\ d.video_games[g].indexer_id = d.indexers[i]._id
                          /\ NotNa(d.indexers[i].url)}, 1)
        IN  [i \in 1..Len(is) |->
                [video_game_id |-> d.video_games[g]._id, indexer_url |-> is[i].url]]])

DeriveDatasetGames(d) ==
    LET df_games == GamesWithIndexerUrl(d)
        merged ==
            Flatten([g \in 1..Len(df_games) |->
                LET ds == PickIdx(d.datasets,
                              {j \in 1..Len(d.datasets) :
                                  df_games[g].indexer_url = d.datasets[j].url}, 1)
                IN  [j \in 1..Len(ds) |->
                        [dataset_id |-> ds[j]._id,
                         video_game_id |-> df_games[g].video_game_id]]])
        distinct == Unique(merged)
        dataset_games == [i \in 1..Len(distinct) |->
                             distinct[i] @@ [link_type |-> "referenced"]]
    IN  AppendNewPairs(d, "dataset_to_video_game", dataset_games,
                       <<"dataset_id", "video_game_id">>)

\* Mutant: the video games are loaded before the tables they look up.
EntitySteps_GamesFirst == <<"video_games", "authors", "repos", "indexers", "datasets">>

\* The steps of a load, in the order load_csv_data and
\* _create_many_to_many_relationships run them, named by the table they fill.
EntitySteps == <<"authors", "repos", "indexers", "video_games", "datasets">>

\* Mutant: the dataset links are derived before the other three join tables.
JoinSteps_DatasetGamesFirst ==
    <<"dataset_to_video_game", "game_authors", "game_repos", "author_repos">>

JoinSteps == <<"game_authors", "game_repos", "author_repos", "dataset_to_video_game">>

RunStep(name, d, df) ==
    CASE name = "authors" -> LoadAuthors(d, df)
      [] name = "repos" -> LoadRepositories(d, df)
      [] name = "indexers" -> LoadIndexers(d, df)
      [] name = "video_games" -> LoadVideoGames(d, df)
      [] name = "datasets" -> LoadDatasets(d, df)
      [] name = "game_authors" -> DeriveGameAuthors(d)
      [] name = "game_repos" -> DeriveGameRepos(d)
      [] name = "author_repos" -> DeriveAuthorRepos(d)
      [] name = "dataset_to_video_game" -> DeriveDatasetGames(d)

\* The steps in sequence, up to the end or to the first one that raises: an
\* exception leaves the function and skips the steps after it.
RECURSIVE RunSteps(_, _, _)
RunSteps(steps, r, df) ==
    IF steps = <<>> \/ r.exc # "none" THEN r
    ELSE RunSteps(Tail(steps), RunStep(Head(steps), r.db, df), df)

CreateManyToManyRelationships(d) == RunSteps(JoinSteps, Ok(d), <<>>)

\* pd.read_sql("SELECT COUNT(*) as count FROM <t>")['count'][0]
CountRows(d, s, t) ==
    IF s[t] = "absent" THEN [exc |-> "OperationalError", count |-> 0]
    ELSE [exc |-> "none", count |-> Len(d[t])]

\* Mutant: the count query is not guarded, the first absent table ends the loop.
RECURSIVE StatisticsLines_Unguarded(_, _, _)
StatisticsLines_Unguarded(tables, d, s) ==
    IF tables = <<>> \/ CountRows(d, s, Head(tables)).exc # "none" THEN <<>>
    ELSE <<[table |-> Head(tables),
            text |-> IntStr(CountRows(d, s, Head(tables)).count)]>>
         \o StatisticsLines_Unguarded(Tail(tables), d, s)

\* for table, label in tables: try: print(count) except: print('Table not found')
\* -- the lines printed, each with the text that follows the label
RECURSIVE StatisticsLines(_, _, _)
StatisticsLines(tables, d, s) ==
    IF tables = <<>> THEN <<>>
    ELSE <<[table |-> Head(tables),
            text |-> IF CountRows(d, s, Head(tables)).exc = "none"
                     THEN IntStr(CountRows(d, s, Head(tables)).count)
                     ELSE <<"Table not found">>]>>
         \o StatisticsLines(Tail(tables), d, s)

\* the text printed for table t among the lines (nothing: the empty text)
LineOf(lines, t) ==
    IF \E i \in 1..Len(lines) : lines[i].table = t
    THEN lines[CHOOSE i \in 1..Len(lines) : lines[i].table = t].text
    ELSE <<>>

\* _show_statistics: what is printed for each table
ShowStatistics(d, s) ==
    LET lines == StatisticsLines(TableNames, d, s)
    IN  [t \in Range(TableNames) |-> LineOf(lines, t)]

LoadCsvData(d, df) ==
    LET r == RunSteps(EntitySteps, Ok(d), df)
    IN  IF r.exc # "none" THEN r ELSE CreateManyToManyRelationships(r.db)

-----------------------------------------------------------------------------
(* The CSV files of the model *)

U1 == <<"https:", "/", "/", "github.com", "/", "acme", "/", "widget", ".git">>
U2 == <<"https:", "/", "/", "github.com", "/", "acme", "/", "widget">>
U3 == <<"https:", "/", "/", "github.com", "/", "Acme", "/", "gadget">>
U4 == <<"not-a-url">>
D1 == <<"http:", "/", "/", "x", "/", "d1">>
D2 == <<"http:", "/", "/", "x", "/", "d2">>

Row(src, ds) == [src |-> src, ds |-> ds]

\* (Source Code URL, Referencing Dataset) of the rows a CSV is made of
RowPool ==
    {Row(U1, D1), Row(U1, D2), Row(U2, D2), Row(U3, NaN), Row(U4, D1),
     Row(NaN, D2), Row(NaN, NaN)}

Csvs == UNION {[1..n -> RowPool] : n \in 0..MaxRows}

-----------------------------------------------------------------------------
(* Specification of the loads: any sequence of load_csv_data calls *)

NoResult == [title |-> <<>>, author |-> <<>>]

\* a store on which a VideoGameDatabase was constructed and nothing was loaded
InitLoadVars ==
    /\ db = EmptyDb
    /\ status = "init"
    /\ lastCsv = <<>>
    /\ repeat = FALSE
    /\ before = ShowStatistics(EmptyDb, Declared)
    /\ nLoads = 0
    /\ stats = ShowStatistics(EmptyDb, Declared)

InitExtractVars ==
    /\ epc = "idle"
    /\ eurl = <<>>
    /\ eres = NoResult

InitRunVars ==
    /\ schema = Declared
    /\ pc = "idle"
    /\ done = <<>>
    /\ failed = "none"
    /\ start = EmptyDb
    /\ drops = 0
    /\ crashes = 0

\* the store of db_class.DB after its construction on a new file; the sqlite
\* library of a default build does not enforce foreign keys
EmptyGameDb == [authors |-> <<>>, video_games |-> <<>>]
NoCall == [op |-> "none", arg |-> 0, kind |-> "none", val |-> 0, exc |-> "none"]

\* GameInterface before the first pass of its menu loop: nothing was chosen,
\* nothing was printed
NoIteration == [choice |-> "none", exc |-> "none", text |-> <<>>, ended |-> FALSE]
NoStatistics == [total_games |-> 0, total_authors |-> 0, published |-> 0, draft |-> 0]

InitGameVars ==
    /\ gdb = EmptyGameDb
    /\ gres = NoCall
    /\ fk = FALSE
    /\ gops = 0
    /\ menu = NoIteration
    /\ shown = NoStatistics

\* the store of osvg.db.DB after its construction on a new file
EmptyOsvgDb == [datasets |-> <<>>, video_games |-> <<>>, video_games_to_datasets |-> <<>>]
NoRun == [cmd |-> "none", vg |-> <<>>, ds |-> <<>>, dispatched |-> FALSE,
          status |-> "none", exit |-> 0, counts |-> <<0, 0, 0>>]

InitOsvgVars ==
    /\ odb = EmptyOsvgDb
    /\ olast = NoRun
    /\ oprev = NoRun
    /\ cli = "cli/__init__.py"
    /\ oruns = 0

Init ==
    /\ InitLoadVars
    /\ InitExtractVars
    /\ InitRunVars
    /\ InitGameVars
    /\ InitOsvgVars

Load(csv) ==
    /\ nLoads < MaxLoads
    /\ \E r \in {LoadCsvData(db, csv)} :
           /\ db' = r.db
           /\ status' = IF r.exc = "none" THEN "completed" ELSE r.exc
           /\ stats' = IF r.exc = "none" THEN ShowStatistics(r.db, schema) ELSE stats
    /\ repeat' = (nLoads > 0 /\ csv = lastCsv)
    /\ before' = ShowStatistics(db, schema)
    /\ lastCsv' = csv
    /\ nLoads' = nLoads + 1
    /\ UNCHANGED <<extractVars, runVars, gameVars, osvgVars>>

Next == \E csv \in Csvs : Load(csv)

Spec == Init /\ [][Next]_vars

-----------------------------------------------------------------------------
(* Specification of _extract_repo_info alone: one call on any URL of at    *)
(* most MaxUrlLen tokens.                                                   *)

UrlTokens == {SLASH, GITHUB, DOTGIT, NEWLINE, "a", "b"}

InitExtract ==
    /\ InitLoadVars
    /\ InitRunVars
    /\ InitGameVars
    /\ InitOsvgVars
    /\ epc = "ready"
    /\ \E n \in 0..MaxUrlLen : eurl \in [1..n -> UrlTokens]
    /\ eres = NoResult

Extract ==
    /\ epc = "ready"
    /\ eres' = ExtractRepoInfo(eurl)
    /\ epc' = "done"
    /\ UNCHANGED <<loadVars, runVars, eurl, gameVars, osvgVars>>

NextExtract == Extract

SpecExtract == InitExtract /\ [][NextExtract]_vars

HasSlash(u) == \E i \in 1..Len(u) : u[i] = SLASH

IsGithubForm(u, i, j) ==
    /\ i + 3 <= j /\ j < Len(u)
    /\ u[i] = GITHUB /\ u[i + 1] = SLASH /\ u[j] = SLASH
    /\ \A k \in ((i + 2)..(j - 1)) \cup ((j + 1)..Len(u)) : u[k] # SLASH

\* at position k of u starts github.com/<segment>/<segment>, both non-empty
HostPatternAt(u, k) ==
    /\ k + 4 <= Len(u)
    /\ u[k] = GITHUB /\ u[k + 1] = SLASH /\ u[k + 2] # SLASH
    /\ \E m \in (k + 3)..(Len(u) - 1) :
          /\ u[m] = SLASH /\ u[m + 1] # SLASH
          /\ \A n \in (k + 2)..(m - 1) : u[n] # SLASH

ExpectedGithub(u, i, j) ==
    [author |-> SubSeq(u, i + 2, j - 1),
     title  |-> IF u[Len(u)] = DOTGIT
                THEN SubSeq(u, j + 1, Len(u) - 1)
                ELSE SubSeq(u, j + 1, Len(u))]

\* C7 as stated: for every URL <anything>github.com/<owner>/<name>[.git] the
\* owner is <owner> and the name is <name> without the '.git' suffix.
C7_AsStated ==
    epc = "done" =>
        \A i, j \in 1..Len(eurl) :
            IsGithubForm(eurl, i, j) => eres = ExpectedGithub(eurl, i, j)

\* C7 amended: the same, provided <anything> holds no earlier
\* github.com/<segment>/<segment> (the first occurrence is the one extracted)
\* and the URL does not end in a line break.
C7_FirstGithubMatch ==
    epc = "done" =>
        \A i, j \in 1..Len(eurl) :
            (/\ IsGithubForm(eurl, i, j)
             /\ \A k \in 1..(i - 1) : ~HostPatternAt(eurl, k)
             /\ eurl[Len(eurl)] # NEWLINE)
                => eres = ExpectedGithub(eurl, i, j)

C7_Witness ==
    /\ epc = "done"
    /\ eurl = <<GITHUB, SLASH, "a", SLASH, "b", DOTGIT>>
    /\ eres = [title |-> <<"b">>, author |-> <<"a">>]

NonEmptySegments(u) ==
    LET parts == Split(u) IN PickIdx(parts, {i \in 1..Len(parts) : parts[i] # <<>>}, 1)

\* C8: for every non-missing URL the name is the last non-empty path segment
\* of the URL without a final '.git'.
C8_NameIsLastSegmentStripped ==
    (epc = "done" /\ NotNa(eurl) /\ NonEmptySegments(eurl) # <<>>) =>
        LET segs == NonEmptySegments(eurl)
            last == segs[Len(segs)]
        IN  eres.title = IF last[Len(last)] = DOTGIT
                         THEN SubSeq(last, 1, Len(last) - 1)
                         ELSE last

-----------------------------------------------------------------------------
(* Specification of a run of load_csv_data taken step by step: a process    *)
(* constructs the VideoGameDatabase on a new or an existing store and loads *)
(* a CSV; the store may lose a table meanwhile (a DROP TABLE from outside), *)
(* the process may be interrupted between two steps, and a new process may  *)
(* then load the same CSV again.                                            *)

Steps == EntitySteps \o JoinSteps \o <<"statistics">>

StartCsvs == UNION {[1..n -> RowPool] : n \in 0..MaxStartRows}

\* Mutant: the tables are dropped and created again.
CreateSchema_Recreate(d, s) == [db |-> EmptyDb, schema |-> Declared]

\* _create_schema: metadata.create_all(checkfirst=True) creates the tables that
\* do not exist and touches no other.
CreateSchema(d, s) ==
    [db |-> d,
     schema |-> [t \in Range(TableNames) |->
                    IF s[t] = "absent" THEN "declared" ELSE s[t]]]

\* The tables a step queries outside any try.  Every one of these queries
\* selects _id, so it raises when the table is absent (no such table) and when
\* to_sql created it (no such column).
StepReads(name) ==
    CASE name = "video_games" -> {"authors", "repos", "indexers"}
      [] name = "game_authors" -> {"video_games"}
      [] name = "game_repos" -> {"video_games"}
      [] name = "author_repos" -> {"authors", "repos"}
      [] name = "dataset_to_video_game" -> {"datasets", "video_games", "indexers"}
      [] OTHER -> {}

\* Rows in a table that to_sql created: the frames carry no _id.
WithoutId(rows) ==
    [i \in 1..Len(rows) |->
        IF "_id" \in DOMAIN rows[i] THEN [rows[i] EXCEPT !._id = NULL] ELSE rows[i]]

\* Mutant: the query for the stored keys of the step's own table is not
\* guarded, an absent table ends the step.
RunStepOn_OwnTableRequired(name, d, s, df) ==
    [db |-> d, schema |-> s,
     exc |-> IF s[name] = "absent" \/ \E t \in StepReads(name) : s[t] # "declared"
             THEN "OperationalError" ELSE RunStep(name, d, df).exc]

\* One step on a store whose tables stand as s says.  The step's own table is
\* queried inside try ... except: pass (absent: nothing is stored), and to_sql
\* creates it when it is absent and there are rows to append.
RunStepOn(name, d, s, df) ==
    IF \E t \in StepReads(name) : s[t] # "declared"
    THEN [db |-> d, schema |-> s, exc |-> "OperationalError"]
    ELSE CHOOSE out \in
             {IF s[name] = "declared" \/ Len(r.db[name]) = Len(d[name])
              THEN [db |-> r.db, schema |-> s, exc |-> r.exc]
              ELSE [db |-> [d EXCEPT ![name] =
                               @ \o WithoutId(SubSeq(r.db[name], Len(@) + 1,
                                                     Len(r.db[name])))],
                    schema |-> [s EXCEPT ![name] = "inferred"],
                    exc |-> r.exc] : r \in {RunStep(name, d, df)}} : TRUE

NextStep(name) == Steps[(CHOOSE i \in 1..Len(Steps) : Steps[i] = name) + 1]

\* A new database file, or the store a completed load left.
InitRun ==
    /\ InitExtractVars
    /\ InitGameVars
    /\ InitOsvgVars
    /\ \E c \in StartCsvs :
          \/ db = EmptyDb /\ schema = Absent /\ c = <<>>
          \/ db = LoadCsvData(EmptyDb, c).db /\ schema = Declared
    /\ status = "init"
    /\ lastCsv = <<>>
    /\ repeat = FALSE
    /\ before = ShowStatistics(EmptyDb, Declared)
    /\ nLoads = 0
    /\ stats = ShowStatistics(EmptyDb, Declared)
    /\ pc = "down"
    /\ done = <<>>
    /\ failed = "none"
    /\ start = EmptyDb
    /\ drops = 0
    /\ crashes = 0

\* VideoGameDatabase(db_path)
Construct ==
    /\ pc = "down"
    /\ \E r \in {CreateSchema(db, schema)} :
          /\ db' = r.db
          /\ schema' = r.schema
    /\ pc' = "idle"
    /\ UNCHANGED <<status, lastCsv, repeat, before, nLoads, stats, done, failed,
                   start, drops, crashes, extractVars, gameVars, osvgVars>>

\* load_csv_data(csv_file): the CSV is read
Begin(csv) ==
    /\ pc = "idle"
    /\ nLoads = 0
    /\ lastCsv' = csv
    /\ start' = db
    /\ before' = ShowStatistics(db, schema)
    /\ nLoads' = 1
    /\ status' = "running"
    /\ pc' = Steps[1]
    /\ UNCHANGED <<db, schema, repeat, stats, done, failed, drops, crashes,
                   extractVars, gameVars, osvgVars>>

\* load_csv_data on the same CSV, by the process started after an interruption
Resume ==
    /\ pc = "idle"
    /\ status = "interrupted"
    /\ nLoads < MaxRuns
    /\ nLoads' = nLoads + 1
    /\ repeat' = TRUE
    /\ status' = "running"
    /\ done' = <<>>
    /\ before' = ShowStatistics(db, schema)
    /\ pc' = Steps[1]
    /\ UNCHANGED <<db, schema, lastCsv, stats, failed, start, drops, crashes,
                   extractVars, gameVars, osvgVars>>

\* the next _load_... call or join derivation; an exception leaves load_csv_data
Step ==
    /\ pc \in Range(EntitySteps \o JoinSteps)
    /\ \E r \in {RunStepOn(pc, db, schema, lastCsv)} :
          /\ db' = r.db
          /\ schema' = r.schema
          /\ IF r.exc = "none"
             THEN /\ done' = Append(done, pc)
                  /\ pc' = NextStep(pc)
                  /\ UNCHANGED <<status, failed>>
             ELSE /\ status' = r.exc
                  /\ failed' = pc
                  /\ pc' = "idle"
                  /\ UNCHANGED done
    /\ UNCHANGED <<lastCsv, repeat, before, nLoads, stats, start, drops, crashes,
                   extractVars, gameVars, osvgVars>>

\* the call of _show_statistics that ends load_csv_data
Statistics ==
    /\ pc = "statistics"
    /\ stats' = ShowStatistics(db, schema)
    /\ status' = "completed"
    /\ done' = Append(done, pc)
    /\ pc' = "idle"
    /\ UNCHANGED <<db, schema, lastCsv, repeat, before, nLoads, failed, start,
                   drops, crashes, extractVars, gameVars, osvgVars>>

\* the store loses table t while a run is in progress
Drop(t) ==
    /\ pc \in Range(Steps)
    /\ drops + crashes < MaxFaults
    /\ schema[t] # "absent"
    /\ db' = [db EXCEPT ![t] = <<>>]
    /\ schema' = [schema EXCEPT ![t] = "absent"]
    /\ drops' = drops + 1
    /\ UNCHANGED <<status, lastCsv, repeat, before, nLoads, stats, pc, done,
                   failed, start, crashes, extractVars, gameVars, osvgVars>>

\* the process is interrupted between two steps
Crash ==
    /\ pc \in Range(Steps)
    /\ drops + crashes < MaxFaults
    /\ pc' = "down"
    /\ status' = "interrupted"
    /\ crashes' = crashes + 1
    /\ UNCHANGED <<db, schema, lastCsv, repeat, before, nLoads, stats, done,
                   failed, start, drops, extractVars, gameVars, osvgVars>>

NextRun ==
    \/ Construct
    \/ \E csv \in Csvs : Begin(csv)
    \/ Resume
    \/ Step
    \/ Statistics
    \/ \E t \in Range(TableNames) : Drop(t)
    \/ Crash

SpecRun == InitRun /\ [][NextRun]_vars

-----------------------------------------------------------------------------
(* Specification of the storage class of the menu interface, DB of         *)
(* src/db_class.py: any sequence of at most MaxOps of its insert and delete *)
(* operations.  Of a row, the columns that the operations read or that tell *)
(* two rows apart are kept.  Foreign keys are declared by _create_tables,   *)
(* and sqlite enforces them only when the library was built to do so (the   *)
(* class never issues PRAGMA foreign_keys): fk is that property of the      *)
(* build.  A bool result is 1 (True) or 0 (False).                          *)

Names == {"ann", "bob"}
Titles == {"g1", "g2"}

HasId(table, id) == \E i \in 1..Len(table) : table[i]._id = id
HasGames(d, author_id) ==
    \E i \in 1..Len(d.video_games) : d.video_games[i].author_id = author_id

\* DELETE FROM <table> WHERE <c> = :id -- the rows that stay
DeleteWhere(table, c, id) ==
    PickIdx(table, {i \in 1..Len(table) : table[i][c] # id}, 1)

Returned(d, kind, val) == [db |-> d, kind |-> kind, val |-> val, exc |-> "none"]
Raised(d, e) == [db |-> d, kind |-> "none", val |-> 0, exc |-> e]
Bool(b) == IF b THEN 1 ELSE 0

\* get_last_row_id: SELECT _id ... ORDER BY _id DESC, first row, or 0
GetLastRowId(table) == MaxId(table)

\* insert_author: the INSERT is not guarded; authors has no constraint but its
\* integer primary key, which sqlite assigns
InsertAuthor(d, name) ==
    LET row == [_id |-> MaxId(d.authors) + 1, name |-> name, is_active |-> TRUE]
        d2 == [d EXCEPT !.authors = Append(@, row)]
    IN  Returned(d2, "int", GetLastRowId(d2.authors))

\* insert_video_game: the INSERT is not guarded; author_id references authors;
\* is_published is kwargs.get("is_published", False)
InsertVideoGame(d, enforced, title, author_id, is_published) ==
    IF enforced /\ author_id # NULL /\ ~HasId(d.authors, author_id)
    THEN Raised(d, "IntegrityError")
    ELSE LET row == [_id |-> MaxId(d.video_games) + 1, title |-> title,
                     author_id |-> author_id, is_published |-> is_published]
             d2 == [d EXCEPT !.video_games = Append(@, row)]
         IN  Returned(d2, "int", GetLastRowId(d2.video_games))

\* delete_game: try: DELETE; commit; return rowcount > 0 / except: return False
DeleteGame(d, game_id) ==
    Returned([d EXCEPT !.video_games = DeleteWhere(@, "_id", game_id)],
             "bool", Bool(HasId(d.video_games, game_id)))

\* delete_author: try: DELETE; commit; return rowcount > 0 / except: return False
\* -- the DELETE raises when foreign keys are enforced and a game names the row
DeleteAuthor(d, enforced, author_id) ==
    IF enforced /\ HasId(d.authors, author_id) /\ HasGames(d, author_id)
    THEN Returned(d, "bool", Bool(FALSE))
    ELSE Returned([d EXCEPT !.authors = DeleteWhere(@, "_id", author_id)],
                  "bool", Bool(HasId(d.authors, author_id)))

\* delete_author_and_games: both DELETEs in one transaction, then commit
DeleteAuthorAndGames(d, author_id) ==
    Returned([authors |-> DeleteWhere(d.authors, "_id", author_id),
              video_games |-> DeleteWhere(d.video_games, "author_id", author_id)],
             "bool", Bool(HasId(d.authors, author_id)))

InitGame ==
    /\ InitLoadVars
    /\ InitExtractVars
    /\ InitRunVars
    /\ InitOsvgVars
    /\ gdb = EmptyGameDb
    /\ gres = NoCall
    /\ fk \in BOOLEAN
    /\ gops = 0
    /\ menu = NoIteration
    /\ shown = NoStatistics

\* one call of operation op with argument arg and outcome r
Call(op, arg, r) ==
    /\ gops < MaxOps
    /\ gdb' = r.db
    /\ gres' = [op |-> op, arg |-> arg, kind |-> r.kind, val |-> r.val,
                exc |-> r.exc]
    /\ gops' = gops + 1
    /\ UNCHANGED <<fk, menu, shown, loadVars, extractVars, runVars, osvgVars>>

CallInsertAuthor(name) == Call("insert_author", 0, InsertAuthor(gdb, name))

CallInsertVideoGame(title, author_id, is_published) ==
    Call("insert_video_game", author_id,
         InsertVideoGame(gdb, fk, title, author_id, is_published))

CallDeleteGame(id) == Call("delete_game", id, DeleteGame(gdb, id))

CallDeleteAuthor(id) == Call("delete_author", id, DeleteAuthor(gdb, fk, id))

CallDeleteAuthorAndGames(id) ==
    Call("delete_author_and_games", id, DeleteAuthorAndGames(gdb, id))

NextGame ==
    \/ \E name \in Names : CallInsertAuthor(name)
    \/ \E title \in Titles : \E id \in 0..MaxAuthorId : \E p \in BOOLEAN :
           CallInsertVideoGame(title, id, p)
    \/ \E id \in 1..MaxAuthorId : CallDeleteGame(id)
    \/ \E id \in 1..MaxAuthorId : CallDeleteAuthor(id)
    \/ \E id \in 1..MaxAuthorId : CallDeleteAuthorAndGames(id)

SpecGame == InitGame /\ [][NextGame]_vars

-----------------------------------------------------------------------------
(* Specification of the menu loop, GameInterface.run of                     *)
(* src/osvg/interface.py, over the DB of src/db_class.py (imported there as *)
(* osvg.db_class): at most MaxOps passes of the loop.  What the user types  *)
(* at the prompts of an action are the inputs of the pass.  A pass may fail *)
(* in two ways that do not depend on the rows stored: the database refuses  *)
(* the first statement of the action (the file is locked or damaged:        *)
(* sqlalchemy raises OperationalError), or the user closes the input at the *)
(* first prompt of the action (input() raises EOFError).  The user may also *)
(* interrupt the program at a prompt (KeyboardInterrupt).                   *)

Faults == {"none", "OperationalError", "EOFError"}

\* str(e), line by line: a sqlalchemy error prints the driver's message, the
\* statement and a link on lines of their own
ErrorText(exc) ==
    IF exc = "OperationalError"
    THEN <<"(sqlite3.OperationalError) database is locked", "[SQL: <statement>]",
           "(Background on this error at: <link>)">>
    ELSE <<"EOF when reading a line">>

\* except Exception as e: print(f"... Error: {e}") -- the lines printed
Report(exc) ==
    IF exc \in {"none", "KeyboardInterrupt"} THEN <<>>
    ELSE [i \in 1..Len(ErrorText(exc)) |->
             IF i = 1 THEN <<"Error: ", ErrorText(exc)[1]>> ELSE <<ErrorText(exc)[i]>>]

\* Mutant: the loop does not catch the exceptions of its actions.
Ended_OnException(choice, exc) == choice = "0" \/ exc # "none"

\* the two break statements of the loop
Ended(choice, exc) == choice = "0" \/ exc = "KeyboardInterrupt"

ViewAllGames(d, fault) ==
    IF fault = "OperationalError" THEN Raise(d, fault) ELSE Ok(d)

ViewAllDevelopers(d, fault) ==
    IF fault = "OperationalError" THEN Raise(d, fault) ELSE Ok(d)

SearchGames(d, fault, search_term) ==
    IF fault = "EOFError" THEN Raise(d, fault)
    ELSE IF search_term = "" THEN Ok(d)
    ELSE IF fault = "OperationalError" THEN Raise(d, fault)
    ELSE Ok(d)

\* choice is the number typed, 0 standing for any text that is no number of
\* the list
AddNewGame(d, enforced, fault, choice, title, published) ==
    IF fault = "OperationalError" THEN Raise(d, fault)
    ELSE IF d.authors = <<>> THEN Ok(d)
    ELSE IF fault = "EOFError" THEN Raise(d, fault)
    ELSE IF choice < 1 \/ choice > Len(d.authors) THEN Ok(d)
    ELSE IF title = "" THEN Ok(d)
    ELSE LET r == InsertVideoGame(d, enforced, title, d.authors[choice]._id,
                                  published)
         IN  [db |-> r.db, exc |-> r.exc]

\* the email is not represented; an empty email is as an empty name
AddNewDeveloper(d, fault, name) ==
    IF fault = "EOFError" THEN Raise(d, fault)
    ELSE IF name = "" THEN Ok(d)
    ELSE IF fault = "OperationalError" THEN Raise(d, fault)
    ELSE Ok(InsertAuthor(d, name).db)

\* GameInterface.delete_game
MenuDeleteGame(d, fault, choice, confirm) ==
    IF fault = "OperationalError" THEN Raise(d, fault)
    ELSE IF d.video_games = <<>> THEN Ok(d)
    ELSE IF fault = "EOFError" THEN Raise(d, fault)
    ELSE IF choice < 1 \/ choice > Len(d.video_games) THEN Ok(d)
    ELSE IF ~confirm THEN Ok(d)
    ELSE Ok(DeleteGame(d, d.video_games[choice]._id).db)

\* GameInterface.delete_developer
MenuDeleteDeveloper(d, enforced, fault, choice, delete_choice, confirm) ==
    IF fault = "OperationalError" THEN Raise(d, fault)
    ELSE IF d.authors = <<>> THEN Ok(d)
    ELSE IF fault = "EOFError" THEN Raise(d, fault)
    ELSE IF choice < 1 \/ choice > Len(d.authors) THEN Ok(d)
    ELSE IF delete_choice = "1"
         THEN Ok(DeleteAuthor(d, enforced, d.authors[choice]._id).db)
    ELSE IF delete_choice = "2" /\ confirm
         THEN Ok(DeleteAuthorAndGames(d, d.authors[choice]._id).db)
    ELSE Ok(d)

\* GameInterface.show_statistics: the four numbers printed
GameStatistics(d) ==
    LET total_games == GetLastRowId(d.video_games)
        total_authors == GetLastRowId(d.authors)
        published_count == Cardinality({i \in 1..Len(d.video_games) :
                                           d.video_games[i].is_published})
    IN  [total_games |-> total_games, total_authors |-> total_authors,
         published |-> published_count, draft |-> total_games - published_count]

\* GameInterface.run_quick_test: a developer and a game are inserted and
\* deleted again
RunQuickTest(d, enforced, fault) ==
    IF fault = "OperationalError" THEN Raise(d, fault)
    ELSE LET a == InsertAuthor(d, "Test Developer")
             g == InsertVideoGame(a.db, enforced, "Test Game", a.val, TRUE)
         IN  IF g.exc # "none" THEN Raise(g.db, g.exc)
             ELSE Ok([authors |-> DeleteWhere(g.db.authors, "_id", a.val),
                      video_games |-> DeleteWhere(g.db.video_games, "_id", g.val)])

InitMenu ==
    /\ InitLoadVars
    /\ InitExtractVars
    /\ InitRunVars
    /\ InitOsvgVars
    /\ gdb = EmptyGameDb
    /\ gres = NoCall
    /\ fk \in BOOLEAN
    /\ gops = 0
    /\ menu = NoIteration
    /\ shown = NoStatistics

\* one pass of the loop: the menu, the choice, the action with outcome r, and
\* the handlers of the loop; sh is what show_statistics has printed last
Pass(choice, r, sh) ==
    /\ ~menu.ended
    /\ gops < MaxOps
    /\ gdb' = r.db
    /\ menu' = [choice |-> choice, exc |-> r.exc, text |-> Report(r.exc),
                ended |-> Ended(choice, r.exc)]
    /\ shown' = sh
    /\ gops' = gops + 1
    /\ UNCHANGED <<gres, fk, loadVars, extractVars, runVars, osvgVars>>

ShowStatisticsPass(fault) ==
    IF fault = "OperationalError"
    THEN Pass("8", Raise(gdb, fault), shown)
    ELSE Pass("8", Ok(gdb), GameStatistics(gdb))

NextMenu ==
    \/ Pass("0", Ok(gdb), shown)
    \/ \E fault \in Faults : Pass("1", ViewAllGames(gdb, fault), shown)
    \/ \E fault \in Faults : Pass("2", ViewAllDevelopers(gdb, fault), shown)
    \/ \E fault \in Faults : \E term \in {"", "g"} :
           Pass("3", SearchGames(gdb, fault, term), shown)
    \/ \E fault \in Faults : \E choice \in 0..MaxAuthorId :
       \E title \in Titles \cup {""} : \E published \in BOOLEAN :
           Pass("4", AddNewGame(gdb, fk, fault, choice, title, published), shown)
    \/ \E fault \in Faults : \E name \in Names \cup {""} :
           Pass("5", AddNewDeveloper(gdb, fault, name), shown)
    \/ \E fault \in Faults : \E choice \in 0..MaxAuthorId : \E confirm \in BOOLEAN :
           Pass("6", MenuDeleteGame(gdb, fault, choice, confirm), shown)
    \/ \E fault \in Faults : \E choice \in 0..MaxAuthorId :
       \E delete_choice \in {"1", "2", "3"} : \E confirm \in BOOLEAN :
           Pass("7", MenuDeleteDeveloper(gdb, fk, fault, choice, delete_choice,
                                         confirm), shown)
    \/ \E fault \in Faults : ShowStatisticsPass(fault)
    \/ \E fault \in Faults : Pass("9", RunQuickTest(gdb, fk, fault), shown)
    \/ Pass("other", Ok(gdb), shown)
    \/ Pass("interrupt", Raise(gdb, "KeyboardInterrupt"), shown)

SpecMenu == InitMenu /\ [][NextMenu]_vars

-----------------------------------------------------------------------------
(* Specification of the osvg command, main of src/osvg/main.py: at most     *)
(* MaxMainRuns runs of the command on one store.  `from osvg.cli import     *)
(* CLI` finds two definitions in the repository, the package                *)
(* osvg/cli/__init__.py (which Python's import prefers) and the module      *)
(* osvg/cli.py: cli is the one a build imports.  A text column is one       *)
(* string; of a CSV row, the columns that main reads are kept.              *)

Cmds == {"load", "load-datasets", "load-video-games", "rawg", "init", ""}
SourceUrls == {"s1", "s2"}
DatasetUrls == {"d1", "d2"}

DatasetCsvs == UNION {[1..n -> [url : DatasetUrls]] : n \in 0..MaxCsvRows}
VideoGameCsvs ==
    UNION {[1..n -> [source_code_url : SourceUrls, dataset_url : DatasetUrls]] :
              n \in 0..MaxCsvRows}

\* the subcommands that CLI.__init__ adds to the parser
DeclaredBy(c) ==
    IF c = "cli/__init__.py" THEN {"load-datasets", "load-video-games"}
    ELSE {"load", "rawg"}

\* next(iter(args.keys())).split(".")[0] -- the dest prefix of the subcommand
SubparserCommand(cmd) ==
    CASE cmd = "load" -> "load"
      [] cmd = "load-datasets" -> "load_datasets"
      [] cmd = "load-video-games" -> "load_video_games"
      [] cmd = "rawg" -> "rawg"

\* pandas.read_csv: the rows under the default index 0, 1, ...
ReadCsvFile(rows) == [i \in 1..Len(rows) |-> [idx |-> i - 1] @@ rows[i]]

\* drop_duplicates(subset="source_code_url"): first rows, index kept
UniqueVideoGames(vg_df) ==
    PickIdx(vg_df, {i \in 1..Len(vg_df) :
                       \A j \in 1..(i - 1) :
                           vg_df[j].source_code_url # vg_df[i].source_code_url}, 1)

\* dataset_df[dataset_df["url"] == dataset].index[0], or -1 for the IndexError
DatasetIndex(ds_df, url) ==
    LET hit == {i \in 1..Len(ds_df) : ds_df[i].url = url}
    IN  IF hit = {} THEN -1
        ELSE ds_df[CHOOSE i \in hit : \A j \in hit : i <= j].idx

\* create_video_game_to_dataset_table
CreateVideoGameToDatasetTable(vg_df, ds_df) ==
    LET unique_vg_df == UniqueVideoGames(vg_df)
        data == Flatten([u \in 1..Len(unique_vg_df) |->
                    LET specific == PickIdx(vg_df,
                            {i \in 1..Len(vg_df) :
                                vg_df[i].source_code_url =
                                    unique_vg_df[u].source_code_url}, 1)
                    IN  [k \in 1..Len(specific) |->
                            [video_game_id |-> unique_vg_df[u].idx,
                             dataset_id |-> DatasetIndex(ds_df, specific[k].dataset_url)]]])
    IN  IF \E k \in 1..Len(data) : data[k].dataset_id = -1
        THEN [exc |-> "IndexError", vg |-> <<>>, links |-> <<>>]
        ELSE [exc |-> "none", vg |-> unique_vg_df, links |-> ReadCsvFile(data)]

\* a frame row as the table row that to_sql(index=True, index_label="_id") sends
WithIndexAsId(r) ==
    [c \in (DOMAIN r \ {"idx"}) \cup {"_id"} |-> IF c = "_id" THEN r.idx ELSE r[c]]

\* DB.write_df_to_table: df.to_sql(if_exists="append", index=True,
\* index_label="_id"), one INSERT that the primary key _id rejects as a whole
WriteDfToTable(d, df, table) ==
    IF \E i \in 1..Len(df) : HasId(d[table], df[i].idx)
    THEN Raise(d, "IntegrityError")
    ELSE Ok([d EXCEPT ![table] = @ \o [i \in 1..Len(df) |-> WithIndexAsId(df[i])]])

Counts(d) == <<Len(d.datasets), Len(d.video_games), Len(d.video_games_to_datasets)>>

\* case "load": of main
LoadRunner(d, vg, ds) ==
    LET t == CreateVideoGameToDatasetTable(ReadCsvFile(vg), ReadCsvFile(ds))
        w1 == WriteDfToTable(d, ReadCsvFile(ds), "datasets")
        w2 == WriteDfToTable(w1.db, t.vg, "video_games")
        w3 == WriteDfToTable(w2.db, t.links, "video_games_to_datasets")
    IN  IF t.exc # "none" THEN Raise(d, t.exc)
        ELSE IF w1.exc # "none" THEN w1
        ELSE IF w2.exc # "none" THEN w2
        ELSE w3

Outcome(d, cmd, vg, ds, dispatched, outcome, code) ==
    [db |-> d,
     run |-> [cmd |-> cmd, vg |-> vg, ds |-> ds, dispatched |-> dispatched,
              status |-> outcome, exit |-> code, counts |-> Counts(d)]]

\* main: an argparse error exits with 2, sys.exit(1) and an exception that
\* nothing catches end the process with 1
Main(d, c, cmd, vg, ds) ==
    IF cmd = "" THEN Outcome(d, cmd, vg, ds, FALSE, "StopIteration", 1)
    ELSE IF cmd \notin DeclaredBy(c) THEN Outcome(d, cmd, vg, ds, FALSE, "usage", 2)
    ELSE IF SubparserCommand(cmd) = "load"
         THEN LET r == LoadRunner(d, vg, ds)
              IN  IF r.exc = "none"
                  THEN Outcome(r.db, cmd, vg, ds, TRUE, "completed", 0)
                  ELSE Outcome(r.db, cmd, vg, ds, TRUE, r.exc, 1)
         ELSE Outcome(d, cmd, vg, ds, FALSE, "sys.exit", 1)

InitOsvg ==
    /\ InitLoadVars
    /\ InitExtractVars
    /\ InitRunVars
    /\ InitGameVars
    /\ odb = EmptyOsvgDb
    /\ olast = NoRun
    /\ oprev = NoRun
    /\ cli \in {"cli/__init__.py", "cli.py"}
    /\ oruns = 0

RunMain(cmd, vg, ds) ==
    /\ oruns < MaxMainRuns
    /\ \E r \in {Main(odb, cli, cmd, vg, ds)} :
          /\ odb' = r.db
          /\ olast' = r.run
    /\ oprev' = olast
    /\ oruns' = oruns + 1
    /\ UNCHANGED <<cli, loadVars, extractVars, runVars, gameVars>>

\* the commands other than load read no file
NextOsvg ==
    \/ \E vg \in VideoGameCsvs : \E ds \in DatasetCsvs : RunMain("load", vg, ds)
    \/ \E cmd \in Cmds \ {"load"} : RunMain(cmd, <<>>, <<>>)

SpecOsvg == InitOsvg /\ [][NextOsvg]_vars

-----------------------------------------------------------------------------
(* Properties of the loads *)

Rows(t) == {db[t][i] : i \in 1..Len(db[t])}

\* no two rows (at different positions) of table t have the same key
KeyUnique(t, key) ==
    \A i, j \in 1..Len(db[t]) :
        KeyOf(db[t][i], key) = KeyOf(db[t][j], key) => i = j

\* C1: when load_csv_data is called twice in succession with the same CSV,
\* every table has as many rows after the second call as after the first.
C1_SecondLoadKeepsCounts ==
    repeat => \A t \in Range(TableNames) : IntStr(Len(db[t])) = before[t]

C1_Witness ==
    /\ repeat
    /\ status = "completed"
    /\ Len(lastCsv) = 2
    /\ Len(db.video_games) >= 2
    /\ Len(db.author_repos) >= 2
    /\ Len(db.dataset_to_video_game) >= 1

\* C2: no two authors share a name, no two repos, indexers or datasets share a
\* url, and no two video games share (title, author_id).
C2_NaturalKeysUnique ==
    /\ KeyUnique("authors", <<"name">>)
    /\ KeyUnique("repos", <<"url">>)
    /\ KeyUnique("indexers", <<"url">>)
    /\ KeyUnique("datasets", <<"url">>)
    /\ KeyUnique("video_games", <<"title", "author_id">>)

\* two loads of overlapping CSVs, of which one holds the same game twice
C2_Witness ==
    /\ nLoads >= 2
    /\ Len(lastCsv) = 2
    /\ ExtractRepoInfo(lastCsv[1].src) = ExtractRepoInfo(lastCsv[2].src)
    /\ lastCsv[1].src # lastCsv[2].src
    /\ Len(db.repos) >= 3
    /\ Len(db.video_games) >= 2
    /\ Len(db.authors) >= 2

\* C3: every join table holds at most one row per pair of ids, and no
\* derivation ever inserts a pair that is already stored (which the primary
\* key of the join table would reject with an IntegrityError).
C3_JoinPairsUnique ==
    /\ KeyUnique("game_authors", <<"game_id", "author_id">>)
    /\ KeyUnique("game_repos", <<"game_id", "repo_id">>)
    /\ KeyUnique("author_repos", <<"author_id", "repo_id">>)
    /\ KeyUnique("dataset_to_video_game", <<"dataset_id", "video_game_id">>)
    /\ status # "IntegrityError"

\* a load that adds join rows to join tables that already hold some
C3_Witness ==
    /\ nLoads >= 2
    /\ status = "completed"
    /\ \A t \in {"game_authors", "game_repos", "author_repos",
                 "dataset_to_video_game"} :
          \E n \in 1..(Len(db[t]) - 1) : before[t] = IntStr(n)

\* C4: after a completed load, every video game with an author has exactly
\* one game_authors row for (game, author), with role 'primary_developer'.
C4_OneGameAuthorPerGame ==
    status = "completed" =>
        \A g \in Rows("video_games") :
            g.author_id # NULL =>
                /\ Cardinality({i \in 1..Len(db.game_authors) :
                        <<db.game_authors[i].game_id, db.game_authors[i].author_id>> = <<g._id, g.author_id>>}) = 1
                /\ \A r \in Rows("game_authors") :
                        <<r.game_id, r.author_id>> = <<g._id, g.author_id>>
                            => r.role = "primary_developer"

C4_Witness ==
    /\ status = "completed"
    /\ nLoads >= 2
    /\ Len(db.video_games) >= 3
    /\ \E g \in Rows("video_games") : g.author_id # NULL /\ g.indexer_id = NULL

C9_AuthorReposByExactName ==
    status = "completed" =>
        /\ \A a \in Rows("authors") : \A r \in Rows("repos") :
              (a.name = r.author) <=>
                  (\E x \in Rows("author_repos") :
                      <<x.author_id, x.repo_id>> = <<a._id, r._id>>)
        /\ \A x \in Rows("author_repos") : x.contribution_type = "owner"

\* authors and repositories whose owner names differ in letter case only
C9_Witness ==
    /\ status = "completed"
    /\ \E a1, a2 \in Rows("authors") : \E r1, r2 \in Rows("repos") :
          /\ a1.name = <<"acme">> /\ a2.name = <<"Acme">>
          /\ r1.author = <<"acme">> /\ r2.author = <<"Acme">>
    /\ Len(db.author_repos) >= 2

\* C10: after a completed load, dataset_to_video_game holds a row (d, g)
\* exactly for the datasets d and games g such that the url of the indexer
\* that g.indexer_id references equals d.url; a game without indexer has none.
C10_DatasetLinksByIndexerUrl ==
    status = "completed" =>
        \A s \in Rows("datasets") : \A g \in Rows("video_games") :
            (\E x \in Rows("dataset_to_video_game") :
                    <<x.dataset_id, x.video_game_id>> = <<s._id, g._id>>)
            <=> (/\ g.indexer_id # NULL
                 /\ \E i \in Rows("indexers") :
                        i._id = g.indexer_id /\ i.url = s.url)

C10_Witness ==
    /\ status = "completed"
    /\ \E g \in Rows("video_games") : g.indexer_id = NULL
    /\ \E g \in Rows("video_games") : g.indexer_id # NULL /\ g.indexer_id # g._id
    /\ Len(db.datasets) >= 2
    /\ Len(db.dataset_to_video_game) >= 2

-----------------------------------------------------------------------------
(* Properties of a run taken step by step *)

\* the number of rows of join table t that link game g to the id in column c
Links(t, g, c) ==
    Cardinality({i \in 1..Len(db[t]) :
                    db[t][i].game_id = g._id /\ db[t][i][c] = g[c]})

\* C11: when a run ends because the derivation of dataset_to_video_game raised
\* on the absent indexers table (the only table lost), the game_authors and
\* game_repos derivations of that run have completed, and game_authors holds
\* one row for every video game with an author_id, game_repos one row for
\* every video game with a repo_id.
C11_EarlierJoinsCommitted ==
    (/\ failed = "dataset_to_video_game"
     /\ schema = [Declared EXCEPT !["indexers"] = "absent"]
     /\ drops = 1)
    => /\ "game_authors" \in Range(done)
       /\ "game_repos" \in Range(done)
       /\ \A g \in Rows("video_games") :
             /\ g.author_id # NULL => Links("game_authors", g, "author_id") = 1
             /\ g.repo_id # NULL => Links("game_repos", g, "repo_id") = 1

\* the run started on an empty store, loaded games with an author and a repo,
\* then lost the indexers table before the dataset links were derived
C11_Witness ==
    /\ failed = "dataset_to_video_game"
    /\ status = "OperationalError"
    /\ schema["indexers"] = "absent"
    /\ start = EmptyDb
    /\ Len(db.video_games) >= 1
    /\ \E g \in Rows("video_games") : g.author_id # NULL /\ g.repo_id # NULL
    /\ Len(db.game_authors) >= 1
    /\ Len(db.game_repos) >= 1

\* the tables a step needs, directly or through the tables it reads
DependsOn(name) ==
    StepReads(name) \cup UNION {StepReads(t) : t \in StepReads(name)}

\* the steps that load_csv_data runs after the step called name
After(name) ==
    LET all == EntitySteps \o JoinSteps
    IN  {all[j] : j \in {j \in 1..Len(all) :
                            \E i \in 1..Len(all) : all[i] = name /\ i < j}}

\* C12: when a step of a run raises, every later step whose table does not
\* depend on the table of the failed step is still executed in that run.
C12_IndependentStepsStillRun ==
    (pc = "idle" /\ failed # "none") =>
        \A s \in After(failed) : failed \notin DependsOn(s) => s \in Range(done)

\* C13: when a run is interrupted between two of its steps and a new process
\* then runs load_csv_data on the same CSV to the end (no table being lost),
\* the nine tables end equal to those of a single uninterrupted run on the
\* store the interrupted run started from.
C13_ResumeEqualsUninterrupted ==
    (status = "completed" /\ crashes >= 1 /\ drops = 0) =>
        db = LoadCsvData(start, lastCsv).db

\* the interrupted run had committed video games but no game_authors row yet
C13_Witness ==
    /\ status = "completed"
    /\ crashes = 1
    /\ nLoads = 2
    /\ Len(lastCsv) = 2
    /\ before["video_games"] # IntStr(Len(start.video_games))
    /\ before["game_authors"] = IntStr(Len(start.game_authors))
    /\ Len(db.game_authors) > Len(start.game_authors)
    /\ Len(db.dataset_to_video_game) >= 1

IsPrefix(a, b) == Len(a) <= Len(b) /\ SubSeq(b, 1, Len(a)) = a

\* C14: load_csv_data only appends.  As long as no table is lost, every row
\* stored when load_csv_data was called is stored, at its place and with every
\* field unchanged, at every later point of the run and of its repetition,
\* whatever the new CSV says about an entity that is already stored.
C14_LoadOnlyAppends ==
    (nLoads >= 1 /\ drops = 0) =>
        \A t \in Range(TableNames) : IsPrefix(start[t], db[t])

\* the store knew the game widget of acme with repository U1 and dataset D1;
\* the CSV names the same game with another repository URL and another dataset
C14_Witness ==
    /\ status = "completed"
    /\ drops = 0
    /\ lastCsv = <<Row(U2, D2)>>
    /\ Len(start.video_games) = 1
    /\ Len(db.video_games) = 1
    /\ Len(db.repos) = 2
    /\ Len(db.indexers) = 2
    /\ db.video_games[1].repo_id = db.repos[1]._id
    /\ db.repos[1].url = U1
    /\ db.video_games[1].indexer_id = db.indexers[1]._id
    /\ db.indexers[1].url = D1

\* C17: _show_statistics, called at the end of a run, prints for each of the
\* nine tables its current row count, and 'Table not found' for a table that
\* is absent; it does not raise and the tables after an absent one are
\* reported as well.
C17_StatisticsReportEveryTable ==
    (pc = "idle" /\ status = "completed") =>
        \A t \in Range(TableNames) :
            stats[t] = IF schema[t] = "absent" THEN <<"Table not found">>
                       ELSE IntStr(Len(db[t]))

\* a run that ended with the third of the nine tables absent and rows in others
C17_Witness ==
    /\ pc = "idle"
    /\ status = "completed"
    /\ schema["indexers"] = "absent"
    /\ stats["indexers"] = <<"Table not found">>
    /\ stats["authors"] = <<"1">>
    /\ stats["datasets"] = <<"2">>
    /\ stats["game_authors"] = <<"1">>

\* C18: constructing the VideoGameDatabase on a store in which every table
\* exists creates no table, drops none, and leaves every row as it was.
C18_SchemaCreationRepeatable ==
    [][(pc = "down" /\ pc' = "idle"
        /\ \A t \in Range(TableNames) : schema[t] # "absent")
       => (schema' = schema /\ db' = db)]_vars

\* the object was constructed on the store that an interrupted run left
C18_Witness ==
    /\ pc = "idle"
    /\ status = "interrupted"
    /\ schema = Declared
    /\ Len(db.video_games) >= 2
    /\ Len(db.game_authors) >= 1

-----------------------------------------------------------------------------
(* Properties of the storage class DB of src/db_class.py *)

\* C16: a call of DB.delete_author on an author that at least one video game
\* names returns False and leaves the authors row in place; the call returns
\* True only when an authors row was deleted.
C16_DeleteAuthorFailsWithGames ==
    [][(gres'.op = "delete_author" /\ gops' = gops + 1) =>
          /\ (HasId(gdb.authors, gres'.arg) /\ HasGames(gdb, gres'.arg)) =>
                (gres'.val = 0 /\ HasId(gdb'.authors, gres'.arg))
          /\ gres'.val = 1 =>
                (HasId(gdb.authors, gres'.arg) /\ ~HasId(gdb'.authors, gres'.arg))
      ]_vars

-----------------------------------------------------------------------------
(* Properties of the osvg command and of the storage operations *)

\* C15: no insert or delete operation of the storage classes lets a
\* constraint violation reach its caller: neither DB.write_df_to_table, under
\* the osvg command, nor an operation of the DB of src/db_class.py ends with
\* an IntegrityError instead of a result.
C15_ViolationsReportedAsFailure ==
    /\ olast.status # "IntegrityError"
    /\ gres.exc # "IntegrityError"

\* C19: a run of osvg with a subcommand that the parser declares reaches a
\* runner, and the exit status is non-zero exactly when the subcommand is not
\* one the parser declares.
C19_DeclaredSubcommandsDispatched ==
    oruns >= 1 =>
        /\ olast.cmd \in DeclaredBy(cli) => olast.dispatched
        /\ olast.exit # 0 <=> olast.cmd \notin DeclaredBy(cli)

\* C20: when osvg load has completed and is run again with the same two CSV
\* files on the same store, the second run completes as well and leaves the
\* row counts of datasets, video_games and video_games_to_datasets as the
\* first run left them.
C20_SecondLoadKeepsCounts ==
    (/\ oruns >= 2
     /\ oprev.cmd = "load" /\ oprev.status = "completed"
     /\ olast.cmd = "load" /\ olast.vg = oprev.vg /\ olast.ds = oprev.ds)
    => (olast.status = "completed" /\ olast.counts = oprev.counts)

\* step a has completed, in this run, before step b starts
Precedes(a, b) ==
    (pc = b \/ b \in Range(done)) =>
        \E i \in 1..Len(done) :
            done[i] = a /\ \A j \in 1..Len(done) : done[j] = b => i < j

\* C22: in every run of load_csv_data, authors, repos and indexers are loaded
\* before video_games, video_games before datasets, and the five entity loads
\* before any join derivation; and when _load_video_games starts (no table
\* being lost), every author name and every repository url that a row of the
\* CSV looks up is stored.
C22_StepsInDependencyOrder ==
    /\ \A a \in {"authors", "repos", "indexers"} : Precedes(a, "video_games")
    /\ Precedes("video_games", "datasets")
    /\ \A e \in Range(EntitySteps) : \A j \in Range(JoinSteps) : Precedes(e, j)
    /\ (pc = "video_games" /\ drops = 0) =>
          \A i \in 1..Len(lastCsv) :
              NotNa(lastCsv[i].src) =>
                  /\ \E a \in Rows("authors") :
                        a.name = ExtractRepoInfo(lastCsv[i].src).author
                  /\ \E r \in Rows("repos") : r.url = lastCsv[i].src

\* a run on an empty store is about to load the games of a CSV that names two
\* repositories of two owners
C22_Witness ==
    /\ pc = "video_games"
    /\ start = EmptyDb
    /\ done = <<"authors", "repos", "indexers">>
    /\ Len(lastCsv) = 2
    /\ Len(db.authors) = 2
    /\ Len(db.repos) = 2
    /\ Len(db.video_games) = 0

\* the rows a step stores when it takes nothing as stored in its own table
Candidates(name, d, df) == RunStep(name, [d EXCEPT ![name] = <<>>], df).db[name]

\* C23: when a step of a run finds its own table absent, so that its query for
\* the keys already stored fails, the step does not fail the load: it goes on
\* as if nothing were stored and inserts every one of its candidates.
C23_FailedExistingQueryMeansEmpty ==
    [][(/\ pc \in Range(EntitySteps \o JoinSteps)
        /\ pc' \notin {pc, "down"}
        /\ schema[pc] = "absent"
        /\ \A t \in StepReads(pc) : schema[t] = "declared")
       => (/\ pc' = NextStep(pc)
           /\ failed' = failed
           /\ db'[pc] = WithoutId(Candidates(pc, db, lastCsv)))]_vars

\* a run completed after game_authors was lost ahead of its derivation, on a
\* store that held a game already: both games got their row again
C23_Witness ==
    /\ status = "completed"
    /\ schema["game_authors"] = "inferred"
    /\ Len(start.game_authors) = 1
    /\ Len(db.video_games) = 2
    /\ Len(db.game_authors) = 2

\* the video games of store d with the title and the owner name of info
GamesOf(d, info) ==
    {g \in Range(d.video_games) :
        /\ g.title = info.title
        /\ \E a \in Range(d.authors) : a._id = g.author_id /\ a.name = info.author}

\* C24: when several rows of one CSV name the same video game (same title and
\* owner), the one video_games row that a completed load stores for it
\* carries the repository and the indexer of the first of these rows; and the
\* repos row stored for a URL carries the title and the owner of the first
\* row with that URL.
C24_FirstCsvRowWins ==
    (status = "completed" /\ drops = 0) =>
        \A i \in 1..Len(lastCsv) :
            LET row  == lastCsv[i]
                info == ExtractRepoInfo(row.src)
            IN  (/\ NotNa(row.src)
                 /\ \A j \in 1..(i - 1) :
                       IsNa(lastCsv[j].src) \/ ExtractRepoInfo(lastCsv[j].src) # info)
                => /\ GamesOf(start, info) = {} =>
                        /\ Cardinality(GamesOf(db, info)) = 1
                        /\ \A g \in GamesOf(db, info) :
                              /\ \E r \in Rows("repos") :
                                    r._id = g.repo_id /\ r.url = row.src
                              /\ IF IsNa(row.ds) THEN g.indexer_id = NULL
                                 ELSE \E x \in Rows("indexers") :
                                          x._id = g.indexer_id /\ x.url = row.ds
                   /\ \A r \in Rows("repos") :
                         r.url = row.src =>
                             r.title = info.title /\ r.author = info.author

\* the CSV names the game widget of acme twice, with two repository URLs and
\* two datasets: the stored game has the first repository and the first dataset
C24_Witness ==
    /\ status = "completed"
    /\ drops = 0
    /\ start = EmptyDb
    /\ lastCsv = <<Row(U1, D1), Row(U2, D2)>>
    /\ Len(db.video_games) = 1
    /\ Len(db.repos) = 2
    /\ Len(db.indexers) = 2
    /\ db.video_games[1].repo_id = db.repos[1]._id
    /\ db.video_games[1].indexer_id = db.indexers[1]._id

\* C25: after osvg load has stored what create_video_game_to_dataset_table
\* returned for a video-games CSV, the link table holds every
\* (video_game_id, dataset_id) pair at most once, also when a
\* (source_code_url, dataset_url) combination occurs on several rows, and the
\* video-game table holds one row per distinct source_code_url, the first.
C25_LinksUniquePerPair ==
    (oruns = 1 /\ olast.cmd = "load" /\ olast.status = "completed") =>
        /\ \A i, j \in 1..Len(odb.video_games_to_datasets) :
              LET a == odb.video_games_to_datasets[i]
                  b == odb.video_games_to_datasets[j]
              IN  <<a.video_game_id, a.dataset_id>> = <<b.video_game_id, b.dataset_id>>
                      => i = j
        /\ \A k \in 1..Len(olast.vg) :
              Cardinality({i \in 1..Len(odb.video_games) :
                  odb.video_games[i].source_code_url = olast.vg[k].source_code_url}) = 1
        /\ \A i \in 1..Len(odb.video_games) :
              LET g == odb.video_games[i]
              IN  /\ g._id + 1 \in 1..Len(olast.vg)
                  /\ olast.vg[g._id + 1].source_code_url = g.source_code_url
                  /\ olast.vg[g._id + 1].dataset_url = g.dataset_url
                  /\ \A k \in 1..g._id : olast.vg[k].source_code_url # g.source_code_url

\* C26: after a completed load_csv_data, for every row of the CSV that has a
\* source URL and a referencing dataset URL, dataset_to_video_game links the
\* dataset with that URL to the video game stored for the row's title and
\* owner, also when the game is on several rows with different datasets.
C26_EveryCsvLinkStored ==
    status = "completed" =>
        \A i \in 1..Len(lastCsv) :
            (NotNa(lastCsv[i].src) /\ NotNa(lastCsv[i].ds)) =>
                \E s \in Rows("datasets") :
                \E g \in GamesOf(db, ExtractRepoInfo(lastCsv[i].src)) :
                \E x \in Rows("dataset_to_video_game") :
                    /\ s.url = lastCsv[i].ds
                    /\ x.dataset_id = s._id
                    /\ x.video_game_id = g._id

\* the ids stored in table t
Ids(t) == {r._id : r \in Rows(t)}

\* C27: after any sequence of load_csv_data calls from an empty store, every
\* video_games row has an author_id and a repo_id, both naming stored rows,
\* its indexer_id, when it has one, names a stored indexer, every row of the
\* four join tables names two stored rows, every game_authors row (g, a) has
\* g.author_id = a and every game_repos row (g, r) has g.repo_id = r.
C27_ReferencesResolve ==
    /\ \A g \in Rows("video_games") :
          /\ g.author_id # NULL /\ g.author_id \in Ids("authors")
          /\ g.repo_id # NULL /\ g.repo_id \in Ids("repos")
          /\ g.indexer_id # NULL => g.indexer_id \in Ids("indexers")
    /\ \A x \in Rows("game_authors") :
          /\ x.author_id \in Ids("authors")
          /\ \E g \in Rows("video_games") : g._id = x.game_id /\ g.author_id = x.author_id
    /\ \A x \in Rows("game_repos") :
          /\ x.repo_id \in Ids("repos")
          /\ \E g \in Rows("video_games") : g._id = x.game_id /\ g.repo_id = x.repo_id
    /\ \A x \in Rows("author_repos") :
          x.author_id \in Ids("authors") /\ x.repo_id \in Ids("repos")
    /\ \A x \in Rows("dataset_to_video_game") :
          x.dataset_id \in Ids("datasets") /\ x.video_game_id \in Ids("video_games")

\* three loads have stored games of several owners, with and without indexer,
\* and rows in each of the four join tables
C27_Witness ==
    /\ nLoads = 3
    /\ status = "completed"
    /\ Len(db.authors) >= 3
    /\ Len(db.video_games) >= 3
    /\ \E g \in Rows("video_games") : g.indexer_id = NULL
    /\ \E g \in Rows("video_games") : g.indexer_id # NULL /\ g.author_id # g._id
    /\ Len(db.game_authors) >= 3
    /\ Len(db.game_repos) >= 3
    /\ Len(db.author_repos) >= 3
    /\ Len(db.dataset_to_video_game) >= 2

-----------------------------------------------------------------------------
(* Properties of the rows that the operations of src/db_class.py leave *)

\* every video game of store d that names an author names a stored one
AuthorsResolve(d) ==
    \A g \in Range(d.video_games) :
        g.author_id # NULL => HasId(d.authors, g.author_id)

\* C28: no operation of DB, insert_video_game being called with the id of a
\* stored author only, takes a store in which every video game that names an
\* author names a stored one to a store in which some game does not.
C28_GamesKeepTheirAuthor ==
    [][(/\ AuthorsResolve(gdb)
        /\ gops' = gops + 1
        /\ gres'.op = "insert_video_game" => HasId(gdb.authors, gres'.arg))
       => AuthorsResolve(gdb')]_vars

\* the rows of a table but those whose column c is id
Others(table, c, id) == {r \in Range(table) : r[c] # id}

\* C29: a call of DB.delete_author_and_games(author_id) that returns True
\* leaves no authors row with that id and no video_games row with that
\* author_id and every other row as it was; a call that returns False leaves
\* both tables as they were.
C29_DeleteAuthorAndGamesAllOrNothing ==
    [][(gres'.op = "delete_author_and_games" /\ gops' = gops + 1) =>
          IF gres'.val = 1
          THEN /\ Range(gdb'.authors) = Others(gdb.authors, "_id", gres'.arg)
               /\ Range(gdb'.video_games) =
                      Others(gdb.video_games, "author_id", gres'.arg)
          ELSE gdb' = gdb
      ]_vars

-----------------------------------------------------------------------------
(* Properties of the menu loop *)

\* the last pass ended with an exception that its action raised
ActionFailed == menu.exc \notin {"none", "KeyboardInterrupt"}

\* C21 as stated: a failure raised by a menu action is reported as a one-line
\* message and the loop goes on; the loop ends only on option '0' or on a
\* keyboard interrupt.
C21_AsStated ==
    /\ menu.ended <=> (menu.choice = "0" \/ menu.exc = "KeyboardInterrupt")
    /\ ActionFailed => (~menu.ended /\ Len(menu.text) = 1)

\* C21 amended: a failure raised by a menu action is caught by the loop and
\* reported by one print of 'Error: ' followed by the text of the exception
\* (several lines for a database error, no stack trace), and the loop goes
\* on; the loop ends only on option '0' or on a keyboard interrupt.
C21_FailureReportedLoopContinues ==
    /\ menu.ended <=> (menu.choice = "0" \/ menu.exc = "KeyboardInterrupt")
    /\ ActionFailed =>
          /\ ~menu.ended
          /\ Len(menu.text) = Len(ErrorText(menu.exc))
          /\ menu.text[1] = <<"Error: ", ErrorText(menu.exc)[1]>>
          /\ \A i \in 2..Len(menu.text) : menu.text[i] = <<ErrorText(menu.exc)[i]>>

\* the database failed under 'Add new game' after a developer and a game were
\* added, and the loop is at its next prompt
C21_Witness ==
    /\ menu.choice = "4"
    /\ menu.exc = "OperationalError"
    /\ ~menu.ended
    /\ gops = 3
    /\ Len(gdb.authors) = 1
    /\ Len(gdb.video_games) = 1

\* C30: what show_statistics prints as 'Total Games' is the number of rows of
\* video_games, as 'Total Developers' the number of rows of authors, and as
\* 'Draft Games' the number of video games that are not published, which is
\* never negative.
C30_StatisticsCountRows ==
    (menu.choice = "8" /\ menu.exc = "none") =>
        /\ shown.total_games = Len(gdb.video_games)
        /\ shown.total_authors = Len(gdb.authors)
        /\ shown.draft = Cardinality({i \in 1..Len(gdb.video_games) :
                                         ~gdb.video_games[i].is_published})
        /\ shown.draft >= 0

====
